---- MODULE Spec2Model ----
(***************************************************************************)
(* Model of mni_7t_dicom_to_bids/patch_files.py: the file-name patcher     *)
(* (patch_files, patch_file_path), the sidecar patcher (patch_json) and    *)
(* the MT flip-angle extractor (get_mt_flip_angle).                        *)
(*                                                                         *)
(* A file name is the structured name BidsName: an ordered sequence of     *)
(* components <<key, value>> (value None for a bare token) and an          *)
(* extension.  The acquisition directory is a function from the names it   *)
(* holds to the files (the identity of the file and its JSON document).    *)
(***************************************************************************)
EXTENDS Integers, Sequences, FiniteSets, TLC

VARIABLES dir, dicom_series, pc, pending, listed, log, warnings, pass

vars == <<dir, dicom_series, pc, pending, listed, log, warnings, pass>>

(***************************************************************************)
(* Bounds of the model.                                                    *)
(***************************************************************************)
MaxRun == 4
MaxFiles == 2
MaxPasses == 2

None == "None"

(***************************************************************************)
(* int() and str() on the run numbers: decimal strings of one digit.       *)
(***************************************************************************)
Digits == <<"0", "1", "2", "3", "4", "5", "6", "7", "8", "9">>

str(i) == Digits[i + 1]

int(s) == CHOOSE i \in 0..9 : Digits[i + 1] = s

\* the ceiling taken as the floor plus one
ceil_half_m(n) == n \div 2 + 1

\* math.ceil(run_number / 2)
ceil_half(n) == (n + 1) \div 2

(***************************************************************************)
(* BidsName: the structured file name.                                     *)
(***************************************************************************)
has(n, key) == \E i \in 1..Len(n.parts) : n.parts[i][1] = key

has_value(n, key, value) == \E i \in 1..Len(n.parts) : n.parts[i] = <<key, value>>

get(n, key) ==
    IF has(n, key)
    THEN n.parts[CHOOSE i \in 1..Len(n.parts) : n.parts[i][1] = key][2]
    ELSE None

remove(n, key) == [n EXCEPT !.parts = SelectSeq(@, LAMBDA p : p[1] # key)]

add(n, key, value) ==
    IF has(n, key)
    THEN [n EXCEPT !.parts = [i \in 1..Len(@) |->
                                 IF @[i][1] = key THEN <<key, value>> ELSE @[i]]]
    ELSE [n EXCEPT !.parts = Append(@, <<key, value>>)]

\* bids_name.match(r'e(\d)'): the digit of the echo token of the name, or None
match_echo(n) ==
    IF \E d \in 1..9 : has(n, "e" \o str(d))
    THEN str(CHOOSE d \in 1..9 : has(n, "e" \o str(d)))
    ELSE None

Count(n, key) == Cardinality({i \in 1..Len(n.parts) : n.parts[i][1] = key})

(***************************************************************************)
(* patch_file_path: the delete rules and the rename rules, in source order.*)
(***************************************************************************)
DeleteMP2RAGE(n) ==
    has(n, "MP2RAGE") /\ (n.extension = "bval" \/ n.extension = "bvec")

\* the marker tested under another name
DeleteROI1_m(n) == has(n, "ROI")

DeleteROI1(n) == has(n, "ROI1")

IsDeleted(n) == DeleteMP2RAGE(n) \/ DeleteROI1(n)

\* Replace 'e?' by 'echo-?'
EchoTokenRule(n) ==
    IF match_echo(n) # None
    THEN add(remove(n, "e" \o match_echo(n)), "echo", match_echo(n))
    ELSE n

\* the task is not looked at
EchoRunRule_m(n) ==
    IF has(n, "echo") /\ has(n, "run") THEN remove(n, "run") ELSE n

\* Remove 'run-?' from echo files
EchoRunRule(n) ==
    IF has(n, "echo") /\ has(n, "run") /\ ~has_value(n, "task", "rest")
    THEN remove(n, "run")
    ELSE n

\* Remove 'run-?' from MTR files
MtwRunRule(n) ==
    IF has_value(n, "acq", "mtw") /\ has(n, "run") THEN remove(n, "run") ELSE n

\* Replace 'ph' with 'part-phase'
PhRule(n) ==
    IF has(n, "ph") THEN add(remove(n, "ph"), "part", "phase") ELSE n

\* Add 'part-mag' to T2 files with echo
PartMagRule(n) ==
    IF has(n, "T2starw") /\ has(n, "echo") /\ ~has(n, "part")
    THEN add(n, "part", "mag")
    ELSE n

\* Replace standalone 'T2starw' with 'T2starmap'
T2starmapRule(n) ==
    IF /\ has_value(n, "acq", "aspire") /\ has(n, "T2starw")
       /\ ~has(n, "desc") /\ ~has(n, "part")
    THEN add(remove(remove(n, "run"), "T2starw"), "T2starmap", None)
    ELSE n

\* the value of run is not looked at
DwiRun1Rule_m(n) ==
    IF has(n, "dwi") /\ has(n, "run") THEN remove(n, "run") ELSE n

\* Remove 'run-1' in 7T DWI acquisitions
DwiRun1Rule(n) ==
    IF has(n, "dwi") /\ has_value(n, "run", "1") THEN remove(n, "run") ELSE n

\* Replace 'run-2' with 'part-phase' in 7T DWI acquisitions
DwiRun2Rule(n) ==
    IF has(n, "dwi") /\ has_value(n, "run", "2")
    THEN add(remove(n, "run"), "part", "phase")
    ELSE n

\* int(bids_name.get('run') or 0)
run_number(n) == IF get(n, "run") = None THEN 0 ELSE int(get(n, "run"))

\* the parity test inverted
acquisition_name_m(n) == IF run_number(n) % 2 = 0 THEN "anat" ELSE "sfam"

acquisition_name(n) == IF run_number(n) % 2 = 1 THEN "anat" ELSE "sfam"

\* Apply the TB1TFL-specific post processing
TB1TFLRule(n) ==
    IF has(n, "TB1TFL")
    THEN add(add(n, "acq", acquisition_name(n)), "run", str(ceil_half(run_number(n))))
    ELSE n

\* the name as it stands when the DWI rules are reached
BeforeDwi(n) ==
    T2starmapRule(PartMagRule(PhRule(MtwRunRule(EchoRunRule(EchoTokenRule(n))))))

\* the name as it stands when the TB1TFL rule is reached
BeforeTB1TFL(n) == DwiRun2Rule(DwiRun1Rule(BeforeDwi(n)))

new_file_name(n) == TB1TFLRule(BeforeTB1TFL(n))

(***************************************************************************)
(* patch_json: the sidecar patterns and the merge of the fixed fields.     *)
(***************************************************************************)
\* bic_util.json.update_json: merge the fields of patch into the document
update_json(doc, patch) ==
    [k \in DOMAIN doc \cup DOMAIN patch |->
        IF k \in DOMAIN patch THEN patch[k] ELSE doc[k]]

\* float(): the texts the embedded parameter line can carry, in tenths
float(s) ==
    CASE s = "500"  -> [ok |-> TRUE, value |-> 5000]
      [] s = "12.5" -> [ok |-> TRUE, value |-> 125]
      [] OTHER      -> [ok |-> FALSE, value |-> 0]

\* the absence of the CSA header is not tested
get_mt_flip_angle_m(series) ==
    IF series.file_paths = 0 \/ ~series.readable \/ ~series.csa_header
    THEN [raised |-> TRUE, resolved |-> FALSE, value |-> 0, warned |-> FALSE]
    ELSE IF ~series.adFree_line
    THEN [raised |-> FALSE, resolved |-> FALSE, value |-> 0, warned |-> FALSE]
    ELSE IF float(series.text).ok
    THEN [raised |-> FALSE, resolved |-> TRUE, value |-> float(series.text).value,
          warned |-> FALSE]
    ELSE [raised |-> FALSE, resolved |-> FALSE, value |-> 0, warned |-> TRUE]

\* The outcome of get_mt_flip_angle: an exception, no value (with or without
\* a warning), or a number.
get_mt_flip_angle(series) ==
    IF series.file_paths = 0 \/ ~series.readable
    THEN [raised |-> TRUE, resolved |-> FALSE, value |-> 0, warned |-> FALSE]
    ELSE IF ~series.csa_header
    THEN [raised |-> FALSE, resolved |-> FALSE, value |-> 0, warned |-> FALSE]
    ELSE IF ~series.adFree_line
    THEN [raised |-> FALSE, resolved |-> FALSE, value |-> 0, warned |-> FALSE]
    ELSE IF float(series.text).ok
    THEN [raised |-> FALSE, resolved |-> TRUE, value |-> float(series.text).value,
          warned |-> FALSE]
    ELSE [raised |-> FALSE, resolved |-> FALSE, value |-> 0, warned |-> TRUE]

\* the pattern written without its second wildcard: '*part-phase.json'
glob_part_phase_m(n) ==
    n.extension = "json" /\ n.parts[Len(n.parts)] = <<"part", "phase">>

\* rglob('*part-phase*.json'), rglob('*mt-off*.json'), rglob('*mt-on*.json'),
\* rglob('*neuromelaninMTw*.json')
glob_part_phase(n) == n.extension = "json" /\ has_value(n, "part", "phase")

glob_mt_off(n) == n.extension = "json" /\ has_value(n, "mt", "off")

glob_mt_on(n) == n.extension = "json" /\ has_value(n, "mt", "on")

glob_neuromelaninMTw(n) == n.extension = "json" /\ has(n, "neuromelaninMTw")

\* the document is replaced by the fields instead of merged with them
patch_fixed_fields_m(n, doc) ==
    LET d1 == IF glob_part_phase(n) THEN [Units |-> "rad"] ELSE doc
        d2 == IF glob_mt_off(n) THEN [MTState |-> FALSE] ELSE d1
        d3 == IF glob_mt_on(n) THEN [MTState |-> TRUE] ELSE d2
    IN  d3

\* the first three loops of patch_json, on the document of the file named n
patch_fixed_fields(n, doc) ==
    LET d1 == IF glob_part_phase(n) THEN update_json(doc, [Units |-> "rad"]) ELSE doc
        d2 == IF glob_mt_off(n) THEN update_json(d1, [MTState |-> FALSE]) ELSE d1
        d3 == IF glob_mt_on(n) THEN update_json(d2, [MTState |-> TRUE]) ELSE d2
    IN  d3

\* the last loop of patch_json, on the document of the file named n
patch_mt_flip_angle(n, doc, angle) ==
    IF glob_neuromelaninMTw(n) /\ angle.resolved
    THEN update_json(doc, [MTFlipAngle |-> angle.value])
    ELSE doc

(***************************************************************************)
(* The names of the model.  A name is built from the options of its        *)
(* components, in the order the converter writes them.                     *)
(***************************************************************************)
Opt(key, v) == IF v = None THEN <<>> ELSE << <<key, v>> >>

Bare(key, b) == IF b THEN << <<key, None>> >> ELSE <<>>

MakeName(o) ==
    [parts |-> << <<"sub", "01">> >> \o Opt("task", o.task) \o Opt("acq", o.acq)
                 \o Opt("mt", o.mt) \o Opt("run", o.run) \o Opt("echo", o.echo)
                 \o Opt("part", o.part) \o Opt("desc", o.desc)
                 \o Bare("MP2RAGE", o.MP2RAGE) \o Bare("T2starw", o.T2starw)
                 \o Bare("dwi", o.dwi) \o Bare("TB1TFL", o.TB1TFL)
                 \o Bare("neuromelaninMTw", o.neuromelaninMTw)
                 \o (IF o.etok = None THEN <<>> ELSE << <<"e" \o o.etok, None>> >>)
                 \o Bare("ph", o.ph) \o Bare("ROI1", o.ROI1),
     extension |-> o.ext]

Runs == {None} \cup {str(i) : i \in 0..MaxRun}

\* the names patch_file_path is tried on: every combination of the components
\* its rules test (the extension is read by the MP2RAGE delete rule only)
NameOptions ==
    {o \in [task : {None, "rest", "motor"}, acq : {None, "mtw", "aspire"},
            mt : {None}, run : Runs, echo : {None, "1"}, part : {None, "mag"},
            desc : {None, "x"}, MP2RAGE : BOOLEAN, T2starw : BOOLEAN, dwi : BOOLEAN,
            TB1TFL : BOOLEAN, neuromelaninMTw : {FALSE}, etok : {None, "2"},
            ph : BOOLEAN, ROI1 : BOOLEAN, ext : {"nii", "bval"}] :
        o.ext = "bval" => o.MP2RAGE}

Plain ==
    [task |-> None, acq |-> None, mt |-> None, run |-> None, echo |-> None,
     part |-> None, desc |-> None, MP2RAGE |-> FALSE, T2starw |-> FALSE,
     dwi |-> FALSE, TB1TFL |-> FALSE, neuromelaninMTw |-> FALSE, etok |-> None,
     ph |-> FALSE, ROI1 |-> FALSE, ext |-> "nii"]

\* the files a directory of the model is drawn from
Catalogue ==
    { MakeName([Plain EXCEPT !.echo = "1", !.run = "1", !.ext = "json"]),
      MakeName([Plain EXCEPT !.echo = "1", !.run = "2", !.ext = "json"]),
      MakeName([Plain EXCEPT !.dwi = TRUE, !.run = "2", !.ext = "json"]),
      MakeName([Plain EXCEPT !.part = "phase", !.T2starw = TRUE, !.ext = "json"]),
      MakeName([Plain EXCEPT !.mt = "off", !.ext = "json"]),
      MakeName([Plain EXCEPT !.mt = "on", !.ext = "json"]),
      MakeName([Plain EXCEPT !.neuromelaninMTw = TRUE, !.ext = "json"]),
      MakeName([Plain EXCEPT !.MP2RAGE = TRUE, !.ext = "bval"]),
      MakeName([Plain EXCEPT !.ROI1 = TRUE, !.etok = "2", !.ext = "json"]),
      MakeName([Plain EXCEPT !.TB1TFL = TRUE, !.run = "3"]) }

BaseDoc == [EchoTime |-> 30]

FullDoc == [EchoTime |-> 30, Units |-> "deg", MTState |-> TRUE, MTFlipAngle |-> 100]

Binary == [Binary |-> TRUE]

Texts == {"12.5", "abc"}

Series ==
    { [file_paths |-> 0, readable |-> FALSE, csa_header |-> FALSE,
       adFree_line |-> FALSE, text |-> ""],
      [file_paths |-> 1, readable |-> FALSE, csa_header |-> FALSE,
       adFree_line |-> FALSE, text |-> ""],
      [file_paths |-> 1, readable |-> TRUE, csa_header |-> FALSE,
       adFree_line |-> FALSE, text |-> ""],
      [file_paths |-> 1, readable |-> TRUE, csa_header |-> TRUE,
       adFree_line |-> FALSE, text |-> ""] }
    \cup { [file_paths |-> 1, readable |-> TRUE, csa_header |-> TRUE,
            adFree_line |-> TRUE, text |-> t] : t \in Texts }

Perms(S) ==
    {s \in [1..Cardinality(S) -> S] : \A i, j \in 1..Cardinality(S) : s[i] = s[j] => i = j}

(***************************************************************************)
(* The state machine: one call of patch_files per pass.                    *)
(***************************************************************************)
\* the files hold the sidecar document doc, or are no sidecars
Start(files, doc) ==
    /\ dir = [n \in files |->
                 [orig |-> n, doc |-> IF n.extension = "json" THEN doc ELSE Binary]]
    /\ pc = "start"
    /\ pending = <<>>
    /\ listed = {}
    /\ log = <<>>
    /\ warnings = 0
    /\ pass = 1

\* an acquisition directory of up to MaxFiles files of the catalogue
Init ==
    /\ dicom_series \in Series
    /\ \E files \in SUBSET Catalogue : \E doc \in {BaseDoc, FullDoc} :
          /\ Cardinality(files) \in 1..MaxFiles
          /\ Start(files, doc)

\* a directory of one file, of any name built from the components
InitName ==
    /\ dicom_series \in {s \in Series : s.text = "12.5"}
    /\ \E o \in NameOptions : Start({MakeName(o)}, BaseDoc)

\* acquisition_dir_path.iterdir(): the listing is read once, in any order
iterdir ==
    /\ pc = "start"
    /\ pending' \in Perms(DOMAIN dir)
    /\ listed' = DOMAIN dir
    /\ pc' = "iter"
    /\ UNCHANGED <<dir, dicom_series, log, warnings, pass>>

\* the directory is read again after each entry: the names it has gained are
\* visited too
remaining_m(entries, new_dir) ==
    LET seen == listed \cup {log[i].src : i \in 1..Len(log)}
    IN  Tail(entries) \o (CHOOSE s \in Perms(DOMAIN new_dir \ seen) : TRUE)

\* the entries the loop of patch_files still has to visit
remaining(entries, new_dir) == Tail(entries)

unlink(d, n) == [m \in DOMAIN d \ {n} |-> d[m]]

rename_file(d, n, new) ==
    [m \in (DOMAIN d \ {n}) \cup {new} |-> IF m = new THEN d[n] ELSE d[m]]

Event(src, op, dst) == [pass |-> pass, src |-> src, op |-> op, dst |-> dst]

patch_file_path ==
    /\ pc = "iter"
    /\ pending # <<>>
    /\ LET file_path == Head(pending)
           new_name == new_file_name(file_path)
       IN  IF file_path \notin DOMAIN dir
           THEN /\ pc' = "raised"
                /\ UNCHANGED <<dir, pending, log>>
           ELSE /\ pc' = pc
                /\ IF IsDeleted(file_path)
                   THEN /\ dir' = unlink(dir, file_path)
                        /\ log' = Append(log, Event(file_path, "unlink", file_path))
                   ELSE IF new_name # file_path
                   THEN /\ dir' = rename_file(dir, file_path, new_name)
                        /\ log' = Append(log, Event(file_path, "rename", new_name))
                   ELSE /\ dir' = dir
                        /\ log' = Append(log, Event(file_path, "keep", file_path))
                /\ pending' = remaining(pending, dir')
    /\ UNCHANGED <<dicom_series, listed, warnings, pass>>

patch_json ==
    /\ pc = "iter"
    /\ pending = <<>>
    /\ LET angle == get_mt_flip_angle(dicom_series)
           fixed == [n \in DOMAIN dir |->
                        [dir[n] EXCEPT !.doc = patch_fixed_fields(n, @)]]
           found == {n \in DOMAIN dir : glob_neuromelaninMTw(n)}
       IN  IF found # {} /\ angle.raised
           THEN /\ dir' = fixed
                /\ pc' = "raised"
                /\ warnings' = warnings
           ELSE /\ dir' = [n \in DOMAIN dir |->
                              [fixed[n] EXCEPT !.doc = patch_mt_flip_angle(n, @, angle)]]
                /\ pc' = "done"
                /\ warnings' = warnings + (IF angle.warned THEN Cardinality(found) ELSE 0)
    /\ UNCHANGED <<dicom_series, pending, listed, log, pass>>

\* patch_files is called again on the directory it has patched
patch_files_again ==
    /\ pc = "done"
    /\ pass < MaxPasses
    /\ pc' = "start"
    /\ pass' = pass + 1
    /\ UNCHANGED <<dir, dicom_series, pending, listed, log, warnings>>

Next == iterdir \/ patch_file_path \/ patch_json \/ patch_files_again

Spec == Init /\ [][Next]_vars

SpecName == InitName /\ [][Next]_vars

TypeOK ==
    /\ pc \in {"start", "iter", "done", "raised"}
    /\ pass \in 1..MaxPasses
    /\ \A n \in DOMAIN dir : n.extension = "json" <=> "EchoTime" \in DOMAIN dir[n].doc

(***************************************************************************)
(* The properties.  An entry of log is one call of patch_file_path: the    *)
(* name it was given (src), what it did (unlink, rename, keep) and the     *)
(* name it produced (dst).                                                 *)
(***************************************************************************)
Calls == {log[i] : i \in 1..Len(log)}

Kept == {e \in Calls : e.op # "unlink"}

HasEcho(n) == has(n, "echo") \/ match_echo(n) # None

\* the call of the previous pass that produced the name e.src
Producers(e) == {f \in Calls : f.pass + 1 = e.pass /\ f.dst = e.src /\ f.op # "unlink"}

\* the run number read by the TB1TFL rule is 2 or more
FoldsAgain(n) == has(n, "TB1TFL") /\ run_number(BeforeTB1TFL(n)) >= 2

\* C1 (as stated): a second application of the rule set to a name the rule
\* set produced changes nothing.
C1_Idempotent == \A e \in Calls : e.pass >= 2 => e.op = "keep"

\* C1 (amended): a second application of the rule set to a name the rule
\* set produced changes nothing, except for the names with the TB1TFL marker
\* whose run number, as the TB1TFL rule read it, was 2 or more: these are
\* changed again.
C1_IdempotentUnlessFolded ==
    \A e \in Calls : \A f \in Producers(e) :
        (e.op = "keep") <=> ~FoldsAgain(f.src)

C1_Witness ==
    \E e \in Calls : \E f \in Producers(e) :
        /\ e.op = "keep" /\ f.op = "rename"
        /\ has(f.src, "TB1TFL") /\ has_value(f.src, "run", "1")

\* the TB1TFL result for the run number r: one acq of the parity of r, one
\* run of half of r rounded up
TB1TFLResult(m, r) ==
    /\ Count(m, "acq") = 1 /\ Count(m, "run") = 1
    /\ has_value(m, "acq", IF r \in {1, 3, 5, 7, 9} THEN "anat" ELSE "sfam")
    /\ 2 * int(get(m, "run")) \in {r, r + 1}

\* C2 (as stated): a TB1TFL name with run number n in its run component (0
\* without one) gets one acq, anat for odd n and sfam for even n, and one run
\* equal to ceil(n/2).
C2_FoldsRunOfName ==
    \A e \in Kept : has(e.src, "TB1TFL") => TB1TFLResult(e.dst, run_number(e.src))

\* C2 (amended): the same, with n the run number the name still has when the
\* TB1TFL rule is reached (0 when it has none or an earlier rule removed it).
C2_FoldsRunAtRule ==
    \A e \in Kept :
        has(e.src, "TB1TFL") => TB1TFLResult(e.dst, run_number(BeforeTB1TFL(e.src)))

C2_Witness ==
    \E e \in Kept :
        /\ has(e.src, "TB1TFL") /\ has_value(e.src, "run", "3")
        /\ has_value(e.src, "acq", "mtw") = FALSE /\ has(e.src, "acq")
        /\ has_value(e.dst, "acq", "anat") /\ has_value(e.dst, "run", "2")

\* C3: a file that matches a delete rule is deleted and never renamed.
C3_DeletedNotRenamed ==
    \A e \in Calls :
        (\/ has(e.src, "MP2RAGE") /\ e.src.extension \in {"bval", "bvec"}
         \/ has(e.src, "ROI1"))
        => /\ e.op = "unlink"
           /\ e.dst = e.src
           /\ (e.pass = pass => \A n \in DOMAIN dir : dir[n].orig # e.src)

C3_Witness ==
    \E e \in Calls :
        /\ e.op = "unlink"
        /\ has(e.src, "ROI1") /\ has(e.src, "e2") /\ has(e.src, "ph")
        /\ has(e.src, "TB1TFL") /\ has(e.src, "run")

\* C4 (as stated): with echo and run present when the echo/run rule is
\* evaluated, the produced name has run if the task is rest, and has no run
\* otherwise.
C4_RunKeptForRestOnly ==
    \A e \in Kept :
        HasEcho(e.src) /\ has(e.src, "run")
        => (has(e.dst, "run") <=> has_value(e.src, "task", "rest"))

\* C4 (amended): with echo and run present when the echo/run rule is
\* evaluated, the produced name has a run component exactly when it carries
\* the TB1TFL marker, or the task is rest and no later rule removes run
\* (acq is not mtw and the name is not a dwi name with run 1 or 2).
C4_RunKeptForRestUnlessLaterRule ==
    \A e \in Kept :
        HasEcho(e.src) /\ has(e.src, "run")
        => (has(e.dst, "run") <=>
               \/ has(e.src, "TB1TFL")
               \/ /\ has_value(e.src, "task", "rest")
                  /\ ~has_value(e.src, "acq", "mtw")
                  /\ ~(has(e.src, "dwi") /\ get(e.src, "run") \in {"1", "2"}))

C4_Witness ==
    \E e \in Kept :
        /\ has(e.src, "e2") /\ ~has(e.src, "echo") /\ has_value(e.src, "run", "2")
        /\ has_value(e.src, "task", "rest") /\ ~has(e.src, "TB1TFL")
        /\ has_value(e.dst, "echo", "2") /\ has_value(e.dst, "run", "2")

\* C5 (as stated): a dwi name with run-2 loses run and gets part=phase; a
\* dwi name with run-1 loses run and nothing else of the name changes.
C5_DwiRunOfName ==
    \A e \in Kept :
        has(e.src, "dwi")
        => /\ has_value(e.src, "run", "2")
              => ~has(e.dst, "run") /\ has_value(e.dst, "part", "phase")
           /\ has_value(e.src, "run", "1") => e.dst = remove(e.src, "run")

\* C5 (amended): for a dwi name without the TB1TFL marker, taken as the
\* earlier rules left it when the dwi rules are reached: with run-2 the
\* produced name has no run and has part=phase; with run-1 the produced
\* name is that name without run (the dwi rules add no part).
C5_DwiRunAtRule ==
    \A e \in Kept :
        has(e.src, "dwi") /\ ~has(e.src, "TB1TFL")
        => /\ has_value(BeforeDwi(e.src), "run", "2")
              => ~has(e.dst, "run") /\ has_value(e.dst, "part", "phase")
           /\ has_value(BeforeDwi(e.src), "run", "1")
              => e.dst = remove(BeforeDwi(e.src), "run")

C5_Witness ==
    \E e \in Kept :
        /\ has(e.src, "dwi") /\ has_value(e.src, "run", "2") /\ ~has(e.src, "part")
        /\ e.op = "rename"
        /\ has_value(e.dst, "part", "phase") /\ ~has(e.dst, "run")

PatchedKeys == {"Units", "MTState", "MTFlipAngle"}

AtPatchJson == pc = "iter" /\ pending = <<>>

\* C6: patch_json only adds or overwrites Units, MTState and MTFlipAngle:
\* every file keeps its name, every other key keeps its value and no key is
\* removed; a sidecar *mt-off*.json ends with MTState false; a sidecar that
\* matches none of the four patterns is unchanged.
C6_OnlyPatchedKeys ==
    [][AtPatchJson =>
         /\ DOMAIN dir' = DOMAIN dir
         /\ \A n \in DOMAIN dir :
               LET old == dir[n].doc
                   new == dir'[n].doc
               IN  /\ dir'[n].orig = dir[n].orig
                   /\ DOMAIN old \subseteq DOMAIN new
                   /\ DOMAIN new \subseteq DOMAIN old \cup PatchedKeys
                   /\ \A k \in DOMAIN old \ PatchedKeys : new[k] = old[k]
                   /\ n.extension = "json" /\ has_value(n, "mt", "off")
                      => new["MTState"] = FALSE
                   /\ ~(/\ n.extension = "json"
                        /\ \/ has_value(n, "part", "phase")
                           \/ has(n, "mt")
                           \/ has(n, "neuromelaninMTw"))
                      => new = old]_vars

C6_Witness ==
    /\ pc = "done"
    /\ \E n \in DOMAIN dir :
          /\ n.extension = "json" /\ has_value(n, "mt", "off")
          /\ dir[n].doc = [EchoTime |-> 30, Units |-> "deg", MTState |-> FALSE,
                           MTFlipAngle |-> 100]

\* C7 (as stated): get_mt_flip_angle never raises, for any series descriptor.
C7_NeverRaises == pc # "raised"

NumericText == {"500", "12.5"}

Readable(series) == series.file_paths > 0 /\ series.readable

Numeric(series) ==
    /\ Readable(series) /\ series.csa_header /\ series.adFree_line
    /\ series.text \in NumericText

\* C7 (amended): get_mt_flip_angle does not raise for a series descriptor
\* whose first file can be read as DICOM (it raises when the series has no
\* file or the file cannot be read): with the metadata block absent, the
\* parameter line not matching or the captured text not a number it returns
\* no value, with a warning in the last case only; and patch_json writes
\* MTFlipAngle into a neuromelaninMTw sidecar only when a number was
\* resolved, and leaves the field as it was otherwise.
C7_NoRaiseWhenReadable ==
    [][AtPatchJson /\ pc' # pc =>
         LET sidecars == {n \in DOMAIN dir :
                            n.extension = "json" /\ has(n, "neuromelaninMTw")}
         IN  /\ Readable(dicom_series) => pc' = "done"
             /\ pc' = "raised" => sidecars # {}
             /\ warnings' # warnings
                <=> /\ sidecars # {} /\ Readable(dicom_series)
                    /\ dicom_series.csa_header /\ dicom_series.adFree_line
                    /\ dicom_series.text \notin NumericText
             /\ \A n \in sidecars :
                   LET old == dir[n].doc
                       new == dir'[n].doc
                   IN  IF Numeric(dicom_series)
                       THEN /\ "MTFlipAngle" \in DOMAIN new
                            /\ dicom_series.text = "500" => new["MTFlipAngle"] = 5000
                            /\ dicom_series.text = "12.5" => new["MTFlipAngle"] = 125
                       ELSE /\ "MTFlipAngle" \in DOMAIN new <=> "MTFlipAngle" \in DOMAIN old
                            /\ "MTFlipAngle" \in DOMAIN old
                               => new["MTFlipAngle"] = old["MTFlipAngle"]]_vars

C7_Witness ==
    /\ pc = "done"
    /\ Readable(dicom_series) /\ ~dicom_series.csa_header
    /\ warnings = 0
    /\ \E n \in DOMAIN dir :
          /\ n.extension = "json" /\ has(n, "neuromelaninMTw")
          /\ dir[n].doc = BaseDoc

\* the calls of patch_file_path of the current pass, in order
Visited == SelectSeq(log, LAMBDA e : e.pass = pass)

\* C8: every entry the directory held when the call started is passed to
\* patch_file_path exactly once, and no name a rename of the pass created is
\* passed to it.
C8_SnapshotVisitedOnce ==
    pc # "start" =>
        LET order == [i \in 1..Len(Visited) |-> Visited[i].src] \o pending
        IN  /\ Len(order) = Cardinality(listed)
            /\ {order[i] : i \in 1..Len(order)} = listed
            /\ \A i, j \in 1..Len(Visited) :
                  i < j /\ Visited[i].op = "rename" /\ Visited[i].dst \notin listed
                  => Visited[j].src # Visited[i].dst

C8_Witness ==
    /\ pc = "done"
    /\ Len(Visited) >= 2
    /\ Visited[1].op = "rename" /\ Visited[1].dst \notin listed
    /\ Visited[1].dst \in DOMAIN dir

\* C9: when patch_files returns, every JSON sidecar whose final name
\* contains part-phase has Units = 'rad'.
C9_PhaseUnitsOnFinalNames ==
    pc = "done" =>
        \A n \in DOMAIN dir :
            n.extension = "json" /\ has_value(n, "part", "phase")
            => "Units" \in DOMAIN dir[n].doc /\ dir[n].doc["Units"] = "rad"

C9_Witness ==
    /\ pc = "done"
    /\ pass = 1
    /\ \E n \in DOMAIN dir :
          /\ n.extension = "json" /\ has_value(n, "part", "phase")
          /\ has(dir[n].orig, "dwi") /\ has_value(dir[n].orig, "run", "2")
          /\ dir[n].doc["Units"] = "rad"

\* C10: within one pass the rename rules give no two kept files the same
\* name and rename no file onto a name another entry holds: no file of the
\* directory is lost to a rename.
C10_RenamesInjective ==
    pc # "start" =>
        /\ \A i, j \in 1..Len(Visited) :
              i # j /\ Visited[i].op # "unlink" /\ Visited[j].op # "unlink"
              => Visited[i].dst # Visited[j].dst
        /\ Cardinality(DOMAIN dir) =
              Cardinality(listed)
                 - Cardinality({i \in 1..Len(Visited) : Visited[i].op = "unlink"})
====
